---- MODULE Spec2Model ----
(***************************************************************************)
(* Model of the `say` schema validator (src/src/schema.rs,                 *)
(* src/src/validator.rs).  The validator is a pure recursive function of   *)
(* a schema node and a serde_json value; the state machine constructs a    *)
(* schema, parses a document and applies `validate` to the pair.           *)
(*                                                                         *)
(* Representation                                                          *)
(*   Option<T>     a set with at most one element ({} is None)             *)
(*   String        a sequence of code points; len() is the UTF-8 byte sum  *)
(*   Value         a record tagged by `kind`                               *)
(*   DataType      a record tagged by `type` (the serde tag)               *)
(*   regex pattern a sequence of pattern tokens                            *)
(***************************************************************************)
EXTENDS Integers, Sequences, FiniteSets

VARIABLES schema, document, verdict, trace, pc

vars == <<schema, document, verdict, trace, pc>>

(***************************************************************************)
(* Bounds of the model.                                                    *)
(***************************************************************************)
MaxStrLen == 2
MaxArrLen == 3
MaxLimit == 3
MaxLength == 2

(***************************************************************************)
(* Small helpers.                                                          *)
(***************************************************************************)
The(opt) == CHOOSE x \in opt : TRUE

Min(S) == CHOOSE x \in S : \A y \in S : x <= y

SeqsUpTo(S, n) == UNION {[1..k -> S] : k \in 0..n}

(***************************************************************************)
(* Code points and strings.  "U4E2D" is a CJK code point (3 bytes in       *)
(* UTF-8); the others are ASCII (1 byte).                                  *)
(***************************************************************************)
Chars == {"a", "b", "A", "1", "U4E2D"}

Digits == {"1"}

Utf8Len(c) == IF c = "U4E2D" THEN 3 ELSE 1

RECURSIVE str_len(_)
str_len(s) == IF Len(s) = 0 THEN 0 ELSE Utf8Len(Head(s)) + str_len(Tail(s))

Strings == SeqsUpTo(Chars, MaxStrLen)

(***************************************************************************)
(* serde_json::Value                                                       *)
(***************************************************************************)
Null == [kind |-> "null"]
Bool(b) == [kind |-> "bool", b |-> b]
Number(n) == [kind |-> "number", n |-> n]
String(s) == [kind |-> "string", s |-> s]
Array(a) == [kind |-> "array", a |-> a]
Object(o) == [kind |-> "object", o |-> o]

Kinds == {"object", "array", "string", "number", "bool", "null"}

Keys == {"a", "b"}

Scalars == {Null, Bool(TRUE), Number(1), String(<<"a">>)}

Elements ==
    {Null, Bool(TRUE), String(<<"a">>), Array(<<Bool(TRUE)>>), Array(<<Null>>)}

Arrays == {Array(a) : a \in SeqsUpTo(Elements, MaxArrLen)}

\* The entries of an object in iteration order; keys are unique.
Entries ==
    {o \in SeqsUpTo([key : Keys, value : Scalars], Cardinality(Keys)) :
        \A i, j \in 1..Len(o) : i # j => o[i].key # o[j].key}

Objects == {Object(o) : o \in Entries}

Values ==
    {Null, Bool(TRUE), Bool(FALSE), Number(1)}
        \cup {String(s) : s \in Strings} \cup Arrays \cup Objects

(***************************************************************************)
(* schema.rs: the six variants of DataType.                                *)
(***************************************************************************)
BooleanType(optional, nullable) ==
    [type |-> "Boolean", optional |-> optional, nullable |-> nullable]

NumberType(optional, nullable, max, min) ==
    [type |-> "Number", optional |-> optional, nullable |-> nullable,
     max |-> max, min |-> min]

LiteralType(optional, nullable, candidate) ==
    [type |-> "Literal", optional |-> optional, nullable |-> nullable,
     candidate |-> candidate]

StringType(optional, nullable, length, regex) ==
    [type |-> "String", optional |-> optional, nullable |-> nullable,
     length |-> length, regex |-> regex]

ListType(optional, nullable, element_type, limit) ==
    [type |-> "List", optional |-> optional, nullable |-> nullable,
     element_type |-> element_type, limit |-> limit]

DictType(optional, nullable, fields, any_fields, others) ==
    [type |-> "Dict", optional |-> optional, nullable |-> nullable,
     fields |-> fields, any_fields |-> any_fields, others |-> others]

(***************************************************************************)
(* The regex crate, for the pattern language the model uses: literals,     *)
(* the class [0-9], the anchors ^ and $, groups, alternation and +.        *)
(***************************************************************************)
Patterns ==
    { <<"[0-9]", "+">>,
      <<"a">>,
      <<"a", "b">>,
      <<"a", "|", "b">>,
      <<"(", "a", "|", "b", ")">>,
      <<"(">>,
      <<"a", ")">> }

\* format!("^{}$", reg)
format(reg) == <<"^">> \o reg \o <<"$">>

\* Nesting depth after the first k tokens of p.
Depth(p, k) ==
    Cardinality({j \in 1..k : p[j] = "("}) - Cardinality({j \in 1..k : p[j] = ")"})

\* Regex::new(p).is_ok(): groups are balanced and every repetition operator
\* has an expression before it.
Regex_new_is_ok(p) ==
    /\ \A k \in 1..Len(p) : Depth(p, k) >= 0
    /\ Depth(p, Len(p)) = 0
    /\ \A k \in 1..Len(p) : p[k] = "+" => (k > 1 /\ p[k - 1] \notin {"(", "|"})

\* Positions of the alternation bars that are not inside a group.
TopBars(p) == {k \in 1..Len(p) : p[k] = "|" /\ Depth(p, k) = 0}

\* Index of the last token of the first atom of p (a group or one token).
AtomEnd(p) ==
    IF p[1] = "(" THEN Min({k \in 1..Len(p) : Depth(p, k) = 0}) ELSE 1

\* Index of the first token after position e that is not a "+".
AfterPlus(p, e) ==
    Min({k \in (e + 1)..(Len(p) + 1) : k = Len(p) + 1 \/ p[k] # "+"})

RECURSIVE MatchEnds(_, _, _)
RECURSIVE AtomEnds(_, _, _)
RECURSIVE PlusEnds(_, _, _, _)

\* The positions at which a match of p that starts at position i of s can
\* end (positions count the code points consumed, 0..Len(s)).
MatchEnds(p, s, i) ==
    IF Len(p) = 0 THEN {i}
    ELSE IF TopBars(p) # {}
    THEN LET k == Min(TopBars(p))
         IN  MatchEnds(SubSeq(p, 1, k - 1), s, i)
                \cup MatchEnds(SubSeq(p, k + 1, Len(p)), s, i)
    ELSE LET e == AtomEnd(p)
             atom == SubSeq(p, 1, e)
             r == AfterPlus(p, e)
             rest == SubSeq(p, r, Len(p))
             once == AtomEnds(atom, s, i)
             ends == IF r > e + 1 THEN PlusEnds(atom, s, once, once) ELSE once
         IN  UNION {MatchEnds(rest, s, j) : j \in ends}

AtomEnds(atom, s, i) ==
    IF atom[1] = "(" THEN MatchEnds(SubSeq(atom, 2, Len(atom) - 1), s, i)
    ELSE IF atom[1] = "^" THEN (IF i = 0 THEN {i} ELSE {})
    ELSE IF atom[1] = "$" THEN (IF i = Len(s) THEN {i} ELSE {})
    ELSE IF i >= Len(s) THEN {}
    ELSE IF atom[1] = "[0-9]" THEN (IF s[i + 1] \in Digits THEN {i + 1} ELSE {})
    ELSE IF s[i + 1] = atom[1] THEN {i + 1} ELSE {}

PlusEnds(atom, s, frontier, acc) ==
    LET new == UNION {AtomEnds(atom, s, j) : j \in frontier} \ acc
    IN  IF new = {} THEN acc ELSE PlusEnds(atom, s, new, acc \cup new)

\* Regex::is_match: an unanchored search.
is_match(p, s) == \E i \in 0..Len(s) : MatchEnds(p, s, i) # {}

(***************************************************************************)
(* validator.rs.  A bool-returning call yields "true" or "false"; a call   *)
(* that panics yields the panic.  Every result carries the calls of        *)
(* validate_type and validate_meta that Validator::validate made, in       *)
(* order.                                                                  *)
(***************************************************************************)
PanicUnwrap == "panic: called Result::unwrap() on an Err value"
PanicUnreachable == "panic: internal error: entered unreachable code"

Panics == {PanicUnwrap, PanicUnreachable}

Ret(b) == IF b THEN "true" ELSE "false"

Result(res, calls) == [res |-> res, trace |-> calls]

TypeCall(self, node, ret) ==
    [op |-> "validate_type", self |-> self, node |-> node, ret |-> ret]

MetaCall(self, node) ==
    [op |-> "validate_meta", self |-> self, node |-> node]

DictType_validate_type(self, node) == node.kind = "object"

ListType_validate_type(self, node) == node.kind = "array"

\* Variant of LiteralType::validate_type that lets null through.
LiteralType_validate_type_null(self, node) == node.kind \in {"string", "null"}

LiteralType_validate_type(self, node) == node.kind = "string"

StringType_validate_type(self, node) == node.kind = "string"

NumberType_validate_type(self, node) == node.kind = "number"

BooleanType_validate_type(self, node) == node.kind = "bool"

DataType_validate_type(self, node) ==
    CASE self.type = "Number" -> NumberType_validate_type(self, node)
      [] self.type = "Dict" -> DictType_validate_type(self, node)
      [] self.type = "List" -> ListType_validate_type(self, node)
      [] self.type = "String" -> StringType_validate_type(self, node)
      [] self.type = "Literal" -> LiteralType_validate_type(self, node)
      [] self.type = "Boolean" -> BooleanType_validate_type(self, node)

\* Variant of the loop of DictType::validate_meta that returns after the
\* first entry.
DictType_fields_loop_first(self, object, i) ==
    IF i > Len(object) THEN "true"
    ELSE Ret(object[i].key \in DOMAIN self.fields)

\* for (key, value) in object.iter() { .. }, from the i-th entry on.
RECURSIVE DictType_fields_loop(_, _, _)
DictType_fields_loop(self, object, i) ==
    IF i > Len(object) THEN "true"
    ELSE IF object[i].key \in DOMAIN self.fields
    THEN DictType_fields_loop(self, object, i + 1)
    ELSE "false"

DictType_validate_meta(self, node) ==
    IF node.kind # "object" THEN Result(PanicUnreachable, <<>>)
    ELSE Result(DictType_fields_loop(self, node.o, 1), <<>>)

\* Variant of LiteralType::validate_meta that compares ignoring ASCII case.
Lower(s) == [i \in 1..Len(s) |-> IF s[i] = "A" THEN "a" ELSE s[i]]

LiteralType_validate_meta_nocase(self, node) ==
    IF node.kind # "string" THEN Result(PanicUnreachable, <<>>)
    ELSE Result(Ret(\E i \in 1..Len(self.candidate) :
                        Lower(self.candidate[i]) = Lower(node.s)), <<>>)

LiteralType_validate_meta(self, node) ==
    IF node.kind # "string" THEN Result(PanicUnreachable, <<>>)
    ELSE Result(Ret(\E i \in 1..Len(self.candidate) : self.candidate[i] = node.s), <<>>)

StringType_validate_meta(self, node) ==
    IF node.kind # "string" THEN Result(PanicUnreachable, <<>>)
    ELSE IF self.length # {} /\ str_len(node.s) > The(self.length)
    THEN Result("false", <<>>)
    ELSE IF self.regex # {}
    THEN LET re == format(The(self.regex))
         IN  IF ~Regex_new_is_ok(re) THEN Result(PanicUnwrap, <<>>)
             ELSE IF ~is_match(re, node.s) THEN Result("false", <<>>)
             ELSE Result("true", <<>>)
    ELSE Result("true", <<>>)

NumberType_validate_meta(self, node) == Result("true", <<>>)

BooleanType_validate_meta(self, node) ==
    Result(Ret(BooleanType_validate_type(self, node)), <<>>)

RECURSIVE validate(_, _)
RECURSIVE ListType_items_loop(_, _, _)

\* for item in array { .. }, from the i-th item on.
ListType_items_loop(self, array, i) ==
    IF i > Len(array) THEN Result("true", <<>>)
    ELSE LET item == validate(self.element_type, array[i])
         IN  IF item.res = "true"
             THEN LET rest == ListType_items_loop(self, array, i + 1)
                  IN  Result(rest.res, item.trace \o rest.trace)
             ELSE item

\* Variant of ListType::validate_meta with an exclusive limit.
ListType_validate_meta_excl(self, node) ==
    IF node.kind # "array" THEN Result(PanicUnreachable, <<>>)
    ELSE IF self.limit # {} /\ Len(node.a) >= The(self.limit)
    THEN Result("false", <<>>)
    ELSE ListType_items_loop(self, node.a, 1)

ListType_validate_meta(self, node) ==
    IF node.kind # "array" THEN Result(PanicUnreachable, <<>>)
    ELSE IF self.limit # {} /\ Len(node.a) > The(self.limit)
    THEN Result("false", <<>>)
    ELSE ListType_items_loop(self, node.a, 1)

DataType_validate_meta(self, node) ==
    CASE self.type = "Number" -> NumberType_validate_meta(self, node)
      [] self.type = "Dict" -> DictType_validate_meta(self, node)
      [] self.type = "List" -> ListType_validate_meta(self, node)
      [] self.type = "String" -> StringType_validate_meta(self, node)
      [] self.type = "Literal" -> LiteralType_validate_meta(self, node)
      [] self.type = "Boolean" -> BooleanType_validate_meta(self, node)

\* Variant of Validator::validate that evaluates both operands (& for &&).
validate_eager(self, node) ==
    LET t == DataType_validate_type(self, node)
        m == DataType_validate_meta(self, node)
    IN  Result(IF t \/ m.res \in Panics THEN m.res ELSE "false",
               <<TypeCall(self, node, t), MetaCall(self, node)>> \o m.trace)

\* Validator::validate: self.validate_type(&node) && self.validate_meta(&node)
validate(self, node) ==
    LET t == DataType_validate_type(self, node)
    IN  IF t
        THEN LET m == DataType_validate_meta(self, node)
             IN  Result(m.res,
                        <<TypeCall(self, node, t), MetaCall(self, node)>>
                            \o m.trace)
        ELSE Result("false", <<TypeCall(self, node, t)>>)

(***************************************************************************)
(* The schemas and documents the model draws from.                         *)
(***************************************************************************)
Lengths == {{}} \cup {{n} : n \in 0..MaxLength}

Limits == {{}} \cup {{n} : n \in 0..MaxLimit}

Regexes == {{}} \cup {{p} : p \in Patterns}

Candidates ==
    { <<>>,
      << <<"a">> >>,
      << <<"a">>, <<"a", "b">> >> }

BooleanTypes == {BooleanType(o, n) : o \in BOOLEAN, n \in BOOLEAN}

NumberTypes == {NumberType(FALSE, n, {}, {}) : n \in BOOLEAN}

LiteralTypes == {LiteralType(FALSE, n, c) : n \in BOOLEAN, c \in Candidates}

StringTypes ==
    {StringType(FALSE, n, l, r) : n \in BOOLEAN, l \in Lengths, r \in Regexes}

ElementTypes ==
    { BooleanType(FALSE, FALSE),
      BooleanType(FALSE, TRUE),
      StringType(FALSE, FALSE, {1}, {}),
      StringType(FALSE, FALSE, {}, {<<"(">>}),
      ListType(FALSE, FALSE, BooleanType(FALSE, FALSE), {}) }

ListTypes ==
    {ListType(FALSE, n, e, l) : n \in BOOLEAN, e \in ElementTypes, l \in Limits}

FieldTypes ==
    { BooleanType(FALSE, FALSE),
      BooleanType(TRUE, FALSE),
      NumberType(FALSE, FALSE, {}, {}) }

Fields == UNION {[D -> FieldTypes] : D \in SUBSET Keys}

DictTypes ==
    {DictType(FALSE, n, f, {}, oth) :
        n \in BOOLEAN, f \in Fields, oth \in {{}, {BooleanType(FALSE, FALSE)}}}

DataTypes ==
    BooleanTypes \cup NumberTypes \cup LiteralTypes \cup StringTypes
        \cup ListTypes \cup DictTypes

(***************************************************************************)
(* The state machine: a schema is constructed (deserialized or built as a  *)
(* struct literal), a document is parsed, validate is called on the pair.  *)
(* A panic aborts the process; otherwise the schema is kept for the next   *)
(* document.                                                               *)
(***************************************************************************)
Init ==
    /\ schema = {}
    /\ document = {}
    /\ verdict = "none"
    /\ trace = <<>>
    /\ pc = "new"

\* serde_json::from_str::<Schema>(&content): every well-typed schema is
\* accepted; the derived Deserialize checks field types only.
Load(root) ==
    /\ pc = "new"
    /\ schema' = {[root |-> root, validators |-> <<>>]}
    /\ pc' = "loaded"
    /\ UNCHANGED <<document, verdict, trace>>

\* let node: Value = serde_json::from_str(content).unwrap();
Parse(node) ==
    /\ pc = "loaded"
    /\ document' = {node}
    /\ pc' = "parsed"
    /\ UNCHANGED <<schema, verdict, trace>>

\* validator.validate(&node)
Validate ==
    /\ pc = "parsed"
    /\ LET r == validate(The(schema).root, The(document))
       IN  /\ verdict' = r.res
           /\ trace' = r.trace
           /\ pc' = IF r.res \in Panics THEN "aborted" ELSE "done"
    /\ UNCHANGED <<schema, document>>

\* The schema is reused for the next document.
Again ==
    /\ pc = "done"
    /\ document' = {}
    /\ verdict' = "none"
    /\ trace' = <<>>
    /\ pc' = "loaded"
    /\ UNCHANGED schema

Next ==
    \/ \E root \in DataTypes : Load(root)
    \/ \E node \in Values : Parse(node)
    \/ Validate
    \/ Again

Spec == Init /\ [][Next]_vars

(***************************************************************************)
(* Properties.                                                             *)
(***************************************************************************)
Finished == pc \in {"done", "aborted"}

Root == The(schema).root

Doc == The(document)

\* The kind of value each variant expects.
ExpectedKind(type) ==
    CASE type = "Dict" -> "object"
      [] type = "List" -> "array"
      [] type = "String" -> "string"
      [] type = "Literal" -> "string"
      [] type = "Boolean" -> "bool"
      [] type = "Number" -> "number"

\* What the wrapped variant's own validate_type answers.
InnerValidateType(self, node) ==
    CASE self.type = "Dict" -> DictType_validate_type(self, node)
      [] self.type = "List" -> ListType_validate_type(self, node)
      [] self.type = "String" -> StringType_validate_type(self, node)
      [] self.type = "Literal" -> LiteralType_validate_type(self, node)
      [] self.type = "Boolean" -> BooleanType_validate_type(self, node)
      [] self.type = "Number" -> NumberType_validate_type(self, node)

\* C1: every call of validate_type on a non-nullable node, of any variant and
\* on a value of any kind, returns true exactly when the value's kind is the
\* variant's expected kind (so null is rejected), and the answer of
\* DataType::validate_type is the answer of the wrapped variant.
C1_TypeMatching ==
    \A i \in 1..Len(trace) :
        (trace[i].op = "validate_type" /\ ~trace[i].self.nullable) =>
            /\ trace[i].ret = (trace[i].node.kind = ExpectedKind(trace[i].self.type))
            /\ trace[i].ret = InnerValidateType(trace[i].self, trace[i].node)

\* A list of non-nullable booleans validated against an array holding a
\* boolean and a null: one shape check accepts, one rejects null.
C1_Witness ==
    /\ pc = "done"
    /\ \E i, j \in 1..Len(trace) :
        /\ trace[i].op = "validate_type" /\ trace[j].op = "validate_type"
        /\ ~trace[i].self.nullable /\ ~trace[j].self.nullable
        /\ trace[i].self.type = "Boolean" /\ trace[i].node.kind = "bool"
        /\ trace[i].ret
        /\ trace[j].self.type = "Boolean" /\ trace[j].node = Null
        /\ ~trace[j].ret

\* C2: validate(N, null) passes when N.nullable is set, without running the
\* constraint check, and fails when N.nullable is not set.
C2_Nullability ==
    (Finished /\ Doc = Null) =>
        IF Root.nullable
        THEN verdict = "true" /\ \A i \in 1..Len(trace) : trace[i].op # "validate_meta"
        ELSE verdict = "false"

\* C3: a Dict node passes an object only if every declared field that is
\* present validates against its field schema and every declared field that
\* is absent is optional.
C3_DeclaredFields ==
    (Finished /\ Root.type = "Dict" /\ Doc.kind = "object" /\ verdict = "true") =>
        \A k \in DOMAIN Root.fields :
            IF \E i \in 1..Len(Doc.o) : Doc.o[i].key = k
            THEN \A i \in 1..Len(Doc.o) :
                    Doc.o[i].key = k => validate(Root.fields[k], Doc.o[i].value).res = "true"
            ELSE Root.fields[k].optional

\* C4: a Dict node without others and any_fields fails an object exactly
\* when the object holds a key that fields does not declare, wherever that
\* key is in the iteration order and whatever the declared fields hold.
C4_UnexpectedField ==
    (Finished /\ Root.type = "Dict" /\ Root.others = {} /\ Root.any_fields = {}
        /\ Doc.kind = "object") =>
        (verdict = "false" <=>
            \E i \in 1..Len(Doc.o) : Doc.o[i].key \notin DOMAIN Root.fields)

\* The undeclared key comes last, after a declared field whose value
\* satisfies its schema.
C4_Witness ==
    /\ pc = "done" /\ Root.type = "Dict" /\ Root.others = {} /\ Root.any_fields = {}
    /\ Doc.kind = "object" /\ Len(Doc.o) = 2
    /\ Doc.o[1].key \in DOMAIN Root.fields
    /\ validate(Root.fields[Doc.o[1].key], Doc.o[1].value).res = "true"
    /\ Doc.o[2].key \notin DOMAIN Root.fields
    /\ verdict = "false"

\* C5: a String node with length = L and no regex passes a string exactly
\* when the string has at most L characters (code points).
C5_CharacterCount ==
    (Finished /\ Root.type = "String" /\ Root.length # {} /\ Root.regex = {}
        /\ Doc.kind = "string") =>
        (verdict = "true" <=> Len(Doc.s) <= The(Root.length))

\* C6: a String node with a parsable regex P and no length passes a string
\* exactly when the whole string matches P.
C6_WholeStringMatch ==
    (Finished /\ Root.type = "String" /\ Root.length = {} /\ Root.regex # {}
        /\ Doc.kind = "string" /\ Regex_new_is_ok(The(Root.regex))) =>
        (verdict = "true" <=> Len(Doc.s) \in MatchEnds(The(Root.regex), Doc.s, 0))

\* C7: a List node passes an array exactly when the array is no longer than
\* the limit (if one is set) and every element passes validate of
\* element_type.
C7_ListLimitAndElements ==
    (Finished /\ Root.type = "List" /\ Doc.kind = "array") =>
        (verdict = "true" <=>
            /\ Root.limit = {} \/ Len(Doc.a) <= The(Root.limit)
            /\ \A i \in 1..Len(Doc.a) :
                validate(Root.element_type, Doc.a[i]).res = "true")

\* An array of limit + 1 conforming elements fails.
C7_Witness ==
    /\ pc = "done" /\ Root.type = "List" /\ Doc.kind = "array"
    /\ Root.limit # {} /\ Len(Doc.a) = The(Root.limit) + 1 /\ Len(Doc.a) >= 2
    /\ \A i \in 1..Len(Doc.a) : validate(Root.element_type, Doc.a[i]).res = "true"
    /\ verdict = "false"

\* C8: a Literal node passes a value exactly when the value is a string
\* equal to an entry of candidate.
C8_LiteralMembership ==
    (Finished /\ Root.type = "Literal") =>
        (verdict = "true" <=>
            /\ Doc.kind = "string"
            /\ Doc.s \in {Root.candidate[i] : i \in 1..Len(Root.candidate)})

\* The string equals the second of two candidates.
C8_Witness ==
    /\ pc = "done" /\ Root.type = "Literal" /\ Len(Root.candidate) = 2
    /\ Doc.kind = "string" /\ Doc.s = Root.candidate[2]
    /\ Doc.s # Root.candidate[1]
    /\ verdict = "true"

\* C9: no validate call on a loaded schema ends in a panic caused by the
\* pattern of a String node.
C9_NoPatternPanic == verdict # PanicUnwrap

\* C10: validate_meta is called only right after validate_type returned true
\* for the same node and value; a validate_type that returns false ends the
\* whole validation with the verdict false; no unreachable!() is entered.
C10_ShapeBeforeConstraint ==
    /\ \A i \in 1..Len(trace) :
        trace[i].op = "validate_meta" =>
            /\ i > 1
            /\ trace[i - 1] = TypeCall(trace[i].self, trace[i].node, TRUE)
    /\ \A i \in 1..Len(trace) :
        (trace[i].op = "validate_type" /\ ~trace[i].ret) =>
            i = Len(trace) /\ verdict = "false"
    /\ verdict # PanicUnreachable

\* A nested list: the constraint check of an element that is itself a list
\* ran, and a later element failed its shape check.
C10_Witness ==
    /\ pc = "done"
    /\ \E i \in 3..Len(trace) :
        /\ trace[i].op = "validate_meta" /\ trace[i].self.type = "List"
        /\ trace[i].self = Root.element_type
    /\ trace[Len(trace)].op = "validate_type" /\ ~trace[Len(trace)].ret

====
